---- MODULE Spec2Model ----
(***************************************************************************)
(* Silo, memory-windows.cpp: the multi-node array allocator               *)
(* (siloMultinodeArrayAlloc), its size rounding                            *)
(* (siloWindowsRoundRequestedAllocationSize) and the Windows virtual       *)
(* memory calls it issues (VirtualAllocExNuma, VirtualFreeEx).             *)
(*                                                                         *)
(* Sizes and addresses are size_t values: arithmetic is modulo 2^WordBits. *)
(* Array indices are the 0-based indices of the source; a TLA+ sequence    *)
(* element k+1 is the source's element k.                                  *)
(***************************************************************************)
EXTENDS Integers, Sequences, FiniteSets

\* ------------------------------------------------------------------ bounds

\* Width of size_t in bits.
WordBits == 5
\* Callers request piece sizes 0..MaxSize ...
MaxSize == 9
\* ... and the TopSizes largest size_t values.
TopSizes == 3
\* Largest number of pieces (count) of one call.
MaxCount == 2
\* First address past the user address space of the process.
MemTop == 16

RECURSIVE Pow2(_)
Pow2(n) == IF n = 0 THEN 1 ELSE 2 * Pow2(n - 1)

Modulus == Pow2(WordBits)

NULL == 0

Min(a, b) == IF a < b THEN a ELSE b

\* Logical NUMA nodes a caller may name; only ValidNodes are known to the
\* topology library.
ValidNodes == {0}
LogicalNodes == {0, 7}

Sizes == (0..Min(MaxSize, Modulus - 1)) \cup ((Modulus - Min(TopSizes, Modulus))..(Modulus - 1))

\* What GetSystemInfo and GetLargePageMinimum report: powers of two.
SystemInfos ==
    [dwAllocationGranularity : {2, 4, 8}, dwPageSize : {2, 4}, largePageMinimum : {0, 8, 16}]

\* The system the allocator runs on: pages of 2, allocation granularity 4.
DefaultSystemInfo ==
    [dwAllocationGranularity |-> 4, dwPageSize |-> 2, largePageMinimum |-> 8]

\* The value the memory past the caller's array may hold in its size field.
BeyondValues == {0, Modulus - 1}

\* Piece sizes of the concurrent callers.
ConcSizes == {4, 5}

\* ------------------------------------------------------------------- state

VARIABLES
    systemInfo,            \* SYSTEM_INFO and the large page minimum of the host
    threads,               \* the calls of siloMultinodeArrayAlloc in progress
    pc,                    \* per call: the statement it is at
    count,                 \* per call: parameter count
    requested,             \* per call: the array spec as the caller passed it
    spec,                  \* per call: the array spec[0..count-1], mutated in place
    beyond,                \* per call: the size field of spec[count], past the array
    touched,               \* per call: the indices of spec read or written
    i,                     \* per call: loop index i (lines 111, 168)
    totalRequestedBytes,
    totalActualBytes,
    allocatedBuffer,
    numAllocated,
    allocationSuccessful,
    allocationSpecs,       \* per call: the recorded pieces [ptr, size]
    ret,                   \* per call: the value returned
    regions,               \* the regions of the address space that are reserved
    backendCalls,          \* per call: the virtual memory calls it issued, in order
    submitted,             \* per call: the piece lists passed to siloPointerMapSubmit
    roundCall              \* the last call of siloWindowsRoundRequestedAllocationSize

vars == <<systemInfo, threads, pc, count, requested, spec, beyond, touched, i,
          totalRequestedBytes, totalActualBytes, allocatedBuffer, numAllocated,
          allocationSuccessful, allocationSpecs, ret, regions, backendCalls,
          submitted, roundCall>>

locals == <<i, totalRequestedBytes, totalActualBytes, allocatedBuffer, numAllocated,
            allocationSuccessful, allocationSpecs>>

\* ------------------------------------------------------- granularity, rounding

siloWindowsGetAllocationUnitSize(useLargePageSupport) ==
    LET largePageSize == IF useLargePageSupport THEN systemInfo.largePageMinimum ELSE 0
        a0 == systemInfo.dwAllocationGranularity
        a1 == IF systemInfo.dwPageSize > a0 THEN systemInfo.dwPageSize ELSE a0
    IN  IF largePageSize > a1 THEN largePageSize ELSE a1

\* A rounding that sends a remainder of exactly half the unit down.
RoundTiesDown(unroundedSize, useLargePageSupport) ==
    LET allocationUnitSize == siloWindowsGetAllocationUnitSize(useLargePageSupport)
        quotient == unroundedSize \div allocationUnitSize
        remainder == unroundedSize % allocationUnitSize
    IN  IF remainder > (allocationUnitSize \div 2)
        THEN (allocationUnitSize * (quotient + 1)) % Modulus
        ELSE (allocationUnitSize * quotient) % Modulus

siloWindowsRoundRequestedAllocationSize(unroundedSize, useLargePageSupport) ==
    LET allocationUnitSize == siloWindowsGetAllocationUnitSize(useLargePageSupport)
        quotient == unroundedSize \div allocationUnitSize
        remainder == unroundedSize % allocationUnitSize
    IN  IF remainder >= (allocationUnitSize \div 2)
        THEN (allocationUnitSize * (quotient + 1)) % Modulus
        ELSE (allocationUnitSize * quotient) % Modulus

\* ------------------------------------------------------------- topology

\* topoGetNUMANodeOSIndex: the OS index of a logical node, negative if unknown.
topoGetNUMANodeOSIndex(numaNode) == IF numaNode \in ValidNodes THEN numaNode ELSE -1

\* --------------------------------------------------------- virtual memory

Overlaps(base, size, r) == base < r.base + r.size /\ r.base < base + size

IsFree(base, size) ==
    /\ base # NULL
    /\ base + size <= MemTop
    /\ \A r \in regions : ~Overlaps(base, size, r)

RoundDown(x, unit) == x - (x % unit)
RoundUp(x, unit) == RoundDown(x + unit - 1, unit)

\* VirtualAllocExNuma(process, startPtr, size, MEM_RESERVE | ..., numaNode): the
\* results the call may have, each [result, made], made being the regions it adds.
\* A NULL startPtr lets the system choose a free range at a multiple of the
\* allocation granularity; otherwise the region starts at startPtr rounded down to
\* the allocation granularity and covers every page that holds a byte of
\* startPtr .. startPtr+size. A size of 0 is refused; any call may fail.
siloWindowsMemoryAllocAtNUMA(p, size, numaNode, startPtr, shouldCommit) ==
    LET g == systemInfo.dwAllocationGranularity
        region(base, len) == [base |-> base, size |-> len, owner |-> p,
                              committed |-> shouldCommit, node |-> numaNode]
        at == RoundDown(startPtr, g)
        len == RoundUp((startPtr - at) + size, systemInfo.dwPageSize)
        chosen == {b \in 1..MemTop : b % g = 0 /\ IsFree(b, RoundUp(size, systemInfo.dwPageSize))}
    IN  {[result |-> NULL, made |-> {}]}
        \cup (IF size = 0 THEN {}
              ELSE IF startPtr = NULL
              THEN {[result |-> b, made |-> {region(b, RoundUp(size, systemInfo.dwPageSize))}] : b \in chosen}
              ELSE IF IsFree(at, len)
              THEN {[result |-> at, made |-> {region(at, len)}]}
              ELSE {})

\* A release that passes its size to VirtualFreeEx, which then refuses MEM_RELEASE.
FreeWithSizeRefused(ptr, size) == regions

\* VirtualFreeEx(process, ptr, 0, MEM_RELEASE): releases the whole region that
\* was reserved at ptr, whoever reserved it; fails (ignored) if there is none.
siloMemoryFreeNUMA(ptr, size) == {r \in regions : r.base # ptr}

Call(op, ptr, size, node, result) ==
    [op |-> op, ptr |-> ptr, size |-> size, node |-> node, result |-> result]

\* ------------------------------------------------------------------ Init

InitCall(T, counts, nodes, sizes, beyonds) ==
    /\ threads = T
    /\ count \in [T -> counts]
    /\ requested \in {f \in [T -> UNION {[1..n -> [numaNode : nodes, size : sizes]] : n \in counts}] :
                        \A p \in T : Len(f[p]) = count[p]}
    /\ spec = requested
    /\ beyond \in [T -> beyonds]
    /\ touched = [p \in T |-> {}]
    /\ pc = [p \in T |-> "validate"]
    /\ i = [p \in T |-> 0]
    /\ totalRequestedBytes = [p \in T |-> 0]
    /\ totalActualBytes = [p \in T |-> 0]
    /\ allocatedBuffer = [p \in T |-> NULL]
    /\ numAllocated = [p \in T |-> 0]
    /\ allocationSuccessful = [p \in T |-> TRUE]
    /\ allocationSpecs = [p \in T |-> <<>>]
    /\ ret = [p \in T |-> NULL]
    /\ regions = {}
    /\ backendCalls = [p \in T |-> <<>>]
    /\ submitted = [p \in T |-> <<>>]

NoRound == [called |-> FALSE, unroundedSize |-> 0, useLargePageSupport |-> FALSE, result |-> 0]

Init ==
    /\ systemInfo = DefaultSystemInfo
    /\ roundCall = NoRound
    /\ InitCall({1}, 0..MaxCount, LogicalNodes, Sizes, BeyondValues)

\* ----------------------------------------------- siloMultinodeArrayAlloc

\* No thread of the process has faulted.
Alive == \A q \in threads : pc[q] # "fault"

\* Lines 105 and 128: the allocation unit of the call.
allocationUnitSize == siloWindowsGetAllocationUnitSize(FALSE)

\* A test of the logical node itself, not of its OS index.
NodeRejectedByLogicalId(numaNode) == 0 > numaNode

\* Line 113: the test that rejects a piece's node.
NodeRejected(numaNode) == 0 > topoGetNUMANodeOSIndex(numaNode)

\* Line 122: the test that rejects the call after the validation loop.
NothingGranted(totalActual) == 0 = totalActual

\* An advance that skips one allocation unit too many.
NextPieceAddressSkipsUnit(buffer, size) == (buffer + size + allocationUnitSize) % Modulus

\* Line 161: the address of the piece after one of `size` at `buffer`.
NextPieceAddress(buffer, size) == (buffer + size) % Modulus

\* A submit that leaves out the last piece.
SubmittedPiecesShort(p) == SubSeq(allocationSpecs[p], 1, numAllocated[p] - 1)

\* Line 177: the pieces handed to siloPointerMapSubmit(numAllocated, allocationSpecs).
SubmittedPieces(p) == SubSeq(allocationSpecs[p], 1, numAllocated[p])

\* A probe that asks for the bytes requested, not the bytes granted.
ProbeRequestOfRequested(p) ==
    [size |-> totalRequestedBytes[p], numaNode |-> 0, startPtr |-> NULL, shouldCommit |-> FALSE]

\* Line 133: the arguments of the probe reservation.
ProbeRequest(p) ==
    [size |-> totalActualBytes[p], numaNode |-> 0, startPtr |-> NULL, shouldCommit |-> FALSE]

\* A piece loop that always takes the first element of the array.
PieceToCommitFirst(p) == spec[p][1]

\* Line 149: the element of the array the piece loop is at.
PieceToCommit(p) == spec[p][numAllocated[p] + 1]

\* A rollback that releases at the running buffer address, where the commit failed.
PieceToReleaseAtBuffer(p) == [ptr |-> allocatedBuffer[p], size |-> allocationSpecs[p][i[p] + 1].size]

\* Line 169: the recorded piece the rollback loop is at.
PieceToRelease(p) == allocationSpecs[p][i[p] + 1]

\* Lines 111-119: one iteration of the validation loop, or its exit.
Validate(p) ==
    /\ Alive /\ pc[p] = "validate"
    /\ IF i[p] < count[p]
       THEN LET e == spec[p][i[p] + 1]
                rounded == siloWindowsRoundRequestedAllocationSize(e.size, FALSE)
            IN  /\ touched' = [touched EXCEPT ![p] = @ \cup {i[p]}]
                /\ IF NodeRejected(e.numaNode)
                   THEN /\ ret' = [ret EXCEPT ![p] = NULL]
                        /\ pc' = [pc EXCEPT ![p] = "done"]
                        /\ UNCHANGED <<spec, i, totalRequestedBytes, totalActualBytes>>
                   ELSE /\ totalRequestedBytes' =
                               [totalRequestedBytes EXCEPT ![p] = (@ + e.size) % Modulus]
                        /\ spec' = [spec EXCEPT ![p][i[p] + 1].size = rounded]
                        /\ totalActualBytes' =
                               [totalActualBytes EXCEPT ![p] = (@ + rounded) % Modulus]
                        /\ i' = [i EXCEPT ![p] = @ + 1]
                        /\ UNCHANGED <<ret, pc>>
       ELSE /\ pc' = [pc EXCEPT ![p] = "check"]
            /\ UNCHANGED <<spec, i, totalRequestedBytes, totalActualBytes, ret, touched>>
    /\ UNCHANGED <<systemInfo, threads, count, requested, beyond, allocatedBuffer,
                   numAllocated, allocationSuccessful, allocationSpecs, regions,
                   backendCalls, submitted, roundCall>>

\* Lines 122-123: nothing was granted on any node.
ZeroCheck(p) ==
    /\ Alive /\ pc[p] = "check"
    /\ IF NothingGranted(totalActualBytes[p])
       THEN /\ ret' = [ret EXCEPT ![p] = NULL]
            /\ pc' = [pc EXCEPT ![p] = "done"]
       ELSE /\ pc' = [pc EXCEPT ![p] = "pad"]
            /\ UNCHANGED ret
    /\ UNCHANGED <<systemInfo, threads, count, requested, spec, beyond, touched, locals,
                   regions, backendCalls, submitted, roundCall>>

\* Lines 126-130: one iteration of the padding loop, or its exit. The loop adds the
\* unit to spec[count].size, the element past the end of the caller's array: here
\* the store lands in the memory that follows the array.
Pad(p) ==
    /\ Alive /\ pc[p] = "pad"
    /\ IF totalActualBytes[p] < totalRequestedBytes[p]
       THEN /\ touched' = [touched EXCEPT ![p] = @ \cup {count[p]}]
            /\ totalActualBytes' =
                  [totalActualBytes EXCEPT ![p] = (@ + allocationUnitSize) % Modulus]
            /\ beyond' = [beyond EXCEPT ![p] = (@ + allocationUnitSize) % Modulus]
            /\ UNCHANGED pc
       ELSE /\ pc' = [pc EXCEPT ![p] = "probe"]
            /\ UNCHANGED <<totalActualBytes, beyond, touched>>
    /\ UNCHANGED <<systemInfo, threads, count, requested, spec, i, totalRequestedBytes,
                   allocatedBuffer, numAllocated, allocationSuccessful, allocationSpecs,
                   ret, regions, backendCalls, submitted, roundCall>>

\* Line 129, the other outcome of the store past the end of the array: the memory
\* that follows the array is not writable and the access faults, which ends the
\* process.
PadFault(p) ==
    /\ Alive /\ pc[p] = "pad"
    /\ totalActualBytes[p] < totalRequestedBytes[p]
    /\ touched' = [touched EXCEPT ![p] = @ \cup {count[p]}]
    /\ pc' = [pc EXCEPT ![p] = "fault"]
    /\ UNCHANGED <<systemInfo, threads, count, requested, spec, beyond, locals, ret,
                   regions, backendCalls, submitted, roundCall>>

\* Lines 133-135: reserve, without committing, the whole range on node 0 at an
\* address the system chooses.
Probe(p) ==
    /\ Alive /\ pc[p] = "probe"
    /\ \E o \in siloWindowsMemoryAllocAtNUMA(p, ProbeRequest(p).size, ProbeRequest(p).numaNode,
                                             ProbeRequest(p).startPtr, ProbeRequest(p).shouldCommit) :
         /\ regions' = regions \cup o.made
         /\ backendCalls' = [backendCalls EXCEPT ![p] =
                Append(@, Call(IF ProbeRequest(p).shouldCommit THEN "commit" ELSE "reserve",
                               ProbeRequest(p).startPtr, ProbeRequest(p).size,
                               ProbeRequest(p).numaNode, o.result))]
         /\ allocatedBuffer' = [allocatedBuffer EXCEPT ![p] = o.result]
         /\ IF NULL = o.result
            THEN /\ ret' = [ret EXCEPT ![p] = NULL]
                 /\ pc' = [pc EXCEPT ![p] = "done"]
            ELSE /\ pc' = [pc EXCEPT ![p] = "freeprobe"]
                 /\ UNCHANGED ret
    /\ UNCHANGED <<systemInfo, threads, count, requested, spec, beyond, touched, i,
                   totalRequestedBytes, totalActualBytes, numAllocated,
                   allocationSuccessful, allocationSpecs, submitted, roundCall>>

\* Lines 138-145: release the probe reservation and start the piece loop.
FreeProbe(p) ==
    /\ Alive /\ pc[p] = "freeprobe"
    /\ regions' = siloMemoryFreeNUMA(allocatedBuffer[p], totalActualBytes[p])
    /\ backendCalls' = [backendCalls EXCEPT ![p] =
           Append(@, Call("release", allocatedBuffer[p], totalActualBytes[p], 0, 0))]
    /\ allocationSpecs' = [allocationSpecs EXCEPT ![p] = <<>>]
    /\ numAllocated' = [numAllocated EXCEPT ![p] = 0]
    /\ allocationSuccessful' = [allocationSuccessful EXCEPT ![p] = TRUE]
    /\ pc' = [pc EXCEPT ![p] = "commit"]
    /\ UNCHANGED <<systemInfo, threads, count, requested, spec, beyond, touched, i,
                   totalRequestedBytes, totalActualBytes, allocatedBuffer, ret,
                   submitted, roundCall>>

\* Lines 146-162: one iteration of the piece loop, or its exit to line 165.
Commit(p) ==
    /\ Alive /\ pc[p] = "commit"
    /\ IF numAllocated[p] < count[p]
       THEN LET e == PieceToCommit(p)
                node == topoGetNUMANodeOSIndex(e.numaNode)
            IN  /\ touched' = [touched EXCEPT ![p] = @ \cup {numAllocated[p]}]
                /\ \E o \in siloWindowsMemoryAllocAtNUMA(p, e.size, node, allocatedBuffer[p], TRUE) :
                     /\ regions' = regions \cup o.made
                     /\ backendCalls' = [backendCalls EXCEPT ![p] =
                            Append(@, Call("commit", allocatedBuffer[p], e.size, node, o.result))]
                     /\ IF NULL = o.result
                        THEN /\ allocationSuccessful' = [allocationSuccessful EXCEPT ![p] = FALSE]
                             /\ i' = [i EXCEPT ![p] = 0]
                             /\ pc' = [pc EXCEPT ![p] = "rollback"]
                             /\ UNCHANGED <<allocationSpecs, allocatedBuffer, numAllocated>>
                        ELSE /\ allocationSpecs' = [allocationSpecs EXCEPT ![p] =
                                    Append(@, [ptr |-> allocatedBuffer[p], size |-> e.size])]
                             /\ allocatedBuffer' = [allocatedBuffer EXCEPT ![p] =
                                    NextPieceAddress(@, e.size)]
                             /\ numAllocated' = [numAllocated EXCEPT ![p] = @ + 1]
                             /\ UNCHANGED <<allocationSuccessful, i, pc>>
       ELSE /\ pc' = [pc EXCEPT ![p] = "submit"]
            /\ UNCHANGED <<touched, regions, backendCalls, allocationSuccessful, i,
                           allocationSpecs, allocatedBuffer, numAllocated>>
    /\ UNCHANGED <<systemInfo, threads, count, requested, spec, beyond,
                   totalRequestedBytes, totalActualBytes, ret, submitted, roundCall>>

\* Lines 165-172, 180-181: release the pieces recorded, one per step, and return NULL.
Rollback(p) ==
    /\ Alive /\ pc[p] = "rollback"
    /\ IF i[p] < numAllocated[p]
       THEN LET a == PieceToRelease(p)
            IN  /\ regions' = siloMemoryFreeNUMA(a.ptr, a.size)
                /\ backendCalls' = [backendCalls EXCEPT ![p] =
                       Append(@, Call("release", a.ptr, a.size, 0, 0))]
                /\ i' = [i EXCEPT ![p] = @ + 1]
                /\ UNCHANGED <<allocatedBuffer, ret, pc>>
       ELSE /\ allocatedBuffer' = [allocatedBuffer EXCEPT ![p] = NULL]
            /\ ret' = [ret EXCEPT ![p] = NULL]
            /\ pc' = [pc EXCEPT ![p] = "done"]
            /\ UNCHANGED <<regions, backendCalls, i>>
    /\ UNCHANGED <<systemInfo, threads, count, requested, spec, beyond, touched,
                   totalRequestedBytes, totalActualBytes, numAllocated,
                   allocationSuccessful, allocationSpecs, submitted, roundCall>>

\* Lines 173-181: return the first piece's address and hand the pieces to the
\* pointer map.
Submit(p) ==
    /\ Alive /\ pc[p] = "submit"
    /\ allocatedBuffer' = [allocatedBuffer EXCEPT ![p] = allocationSpecs[p][1].ptr]
    /\ submitted' = [submitted EXCEPT ![p] = Append(@, SubmittedPieces(p))]
    /\ ret' = [ret EXCEPT ![p] = allocationSpecs[p][1].ptr]
    /\ pc' = [pc EXCEPT ![p] = "done"]
    /\ UNCHANGED <<systemInfo, threads, count, requested, spec, beyond, touched, i,
                   totalRequestedBytes, totalActualBytes, numAllocated,
                   allocationSuccessful, allocationSpecs, regions, backendCalls,
                   roundCall>>

Next ==
    \/ \E p \in threads : Validate(p)
    \/ \E p \in threads : ZeroCheck(p)
    \/ \E p \in threads : Pad(p)
    \/ \E p \in threads : PadFault(p)
    \/ \E p \in threads : Probe(p)
    \/ \E p \in threads : FreeProbe(p)
    \/ \E p \in threads : Commit(p)
    \/ \E p \in threads : Rollback(p)
    \/ \E p \in threads : Submit(p)

Spec == Init /\ [][Next]_vars

\* The calling thread keeps running: a call that can take a step takes one.
SpecLive == Init /\ [][Next]_vars /\ WF_vars(Next)

\* ------------------------------------------------------- two concurrent calls

\* Two threads of the process call siloMultinodeArrayAlloc at the same time, each
\* with its own array of valid nodes.
InitConc ==
    /\ systemInfo = DefaultSystemInfo
    /\ roundCall = NoRound
    /\ InitCall({1, 2}, 1..MaxCount, ValidNodes, ConcSizes, {0})

SpecConc == InitConc /\ [][Next]_vars

\* ------------------------------------- concurrent calls and another allocator

\* Most regions another thread of the process holds at a time.
MaxOther == 1

\* The owner of the regions of the other thread.
Other == 0

\* Lines 88-91: another thread calls siloMemoryAllocNUMA for one allocation unit
\* and is given a free range the system chooses.
siloMemoryAllocNUMA ==
    /\ Alive
    /\ Cardinality({r \in regions : r.owner = Other}) < MaxOther
    /\ \E o \in siloWindowsMemoryAllocAtNUMA(Other, allocationUnitSize, 0, NULL, TRUE) :
         /\ o.result # NULL
         /\ regions' = regions \cup o.made
    /\ UNCHANGED <<systemInfo, threads, pc, count, requested, spec, beyond, touched,
                   locals, ret, backendCalls, submitted, roundCall>>

\* Lines 95-98: the other thread releases a region it was given.
OtherFree ==
    /\ Alive
    /\ \E r \in regions :
         /\ r.owner = Other
         /\ regions' = siloMemoryFreeNUMA(r.base, r.size)
    /\ UNCHANGED <<systemInfo, threads, pc, count, requested, spec, beyond, touched,
                   locals, ret, backendCalls, submitted, roundCall>>

NextRace ==
    \/ Next
    \/ siloMemoryAllocNUMA
    \/ OtherFree

SpecRace == InitConc /\ [][NextRace]_vars

\* ------------------------------------------------------- the rounding alone

\* siloWindowsRoundRequestedAllocationSize called with any size, with and without
\* large pages, on any of the hosts of SystemInfos.
InitRound ==
    /\ systemInfo \in SystemInfos
    /\ roundCall = NoRound
    /\ InitCall({}, {0}, ValidNodes, {0}, {0})

RoundCall ==
    /\ \E unroundedSize \in 0..(Modulus - 1), useLargePageSupport \in BOOLEAN :
         roundCall' = [called |-> TRUE,
                       unroundedSize |-> unroundedSize,
                       useLargePageSupport |-> useLargePageSupport,
                       result |-> siloWindowsRoundRequestedAllocationSize(
                                      unroundedSize, useLargePageSupport)]
    /\ UNCHANGED <<systemInfo, threads, pc, count, requested, spec, beyond, touched,
                   locals, ret, regions, backendCalls, submitted>>

NextRound == RoundCall

SpecRound == InitRound /\ [][NextRound]_vars

\* ------------------------------------------------------------------ claims

RECURSIVE SumSizes(_)
SumSizes(pieces) ==
    IF pieces = <<>> THEN 0 ELSE pieces[1].size + SumSizes(Tail(pieces))

\* The size piece k (1-based) of call p is rounded to.
Rounded(p, k) == siloWindowsRoundRequestedAllocationSize(requested[p][k].size, FALSE)

RECURSIVE SumRoundedTo(_, _)
SumRoundedTo(p, k) == IF k = 0 THEN 0 ELSE Rounded(p, k) + SumRoundedTo(p, k - 1)

Returned(p) == pc[p] = "done"

\* The call is at or past line 133: the padding loop has ended.
PastPadding(p) ==
    \/ pc[p] \in {"probe", "freeprobe", "commit", "rollback", "submit"}
    \/ pc[p] = "done" /\ backendCalls[p] # <<>>

SomeNodeInvalid(p) ==
    \E k \in 1..count[p] : topoGetNUMANodeOSIndex(requested[p][k].numaNode) < 0

CommitCalls(p) == SelectSeq(backendCalls[p], LAMBDA c : c.op = "commit")

CommitFailed(p) == \E n \in DOMAIN backendCalls[p] :
    backendCalls[p][n].op = "commit" /\ backendCalls[p][n].result = NULL

Held(p) == {r \in regions : r.owner = p}

\* C1: once the call is past the padding step, the sizes of pieces 0..count-1 add
\* up to at least the sizes the caller requested.
C1_Coverage ==
    \A p \in threads :
        PastPadding(p) /\ count[p] >= 1 => SumSizes(spec[p]) >= SumSizes(requested[p])

\* The sizes the caller's array is to hold on return: each piece rounded, the last
\* one grown by the fewest whole units that cover the total requested.
PaddedSizes(p) ==
    LET n == count[p]
        need == SumSizes(requested[p]) - SumRoundedTo(p, n)
        units == IF need <= 0 THEN 0
                 ELSE (need + allocationUnitSize - 1) \div allocationUnitSize
    IN  [k \in 1..n |-> IF k < n THEN Rounded(p, k)
                                 ELSE Rounded(p, k) + units * allocationUnitSize]

\* C2: when a call that got past the padding step returns, every piece but the last
\* holds its rounded size and the last holds its rounded size plus the padding.
C2_FinalSizes ==
    \A p \in threads :
        Returned(p) /\ PastPadding(p) =>
            \A k \in 1..count[p] : spec[p][k].size = PaddedSizes(p)[k]

\* C3: after a successful call the recorded pieces follow one another without a
\* gap, each is a committed region at exactly its recorded address and size, and
\* the value returned is the first piece's address.
C3_Contiguity ==
    \A p \in threads :
        Returned(p) /\ ret[p] # NULL =>
            LET a == allocationSpecs[p]
            IN  /\ Len(a) = count[p]
                /\ \A k \in 1..(Len(a) - 1) : a[k].ptr + a[k].size = a[k + 1].ptr
                /\ \A k \in 1..Len(a) :
                      /\ \E r \in regions : /\ r.base = a[k].ptr
                                            /\ r.size = a[k].size
                                            /\ r.committed
                                            /\ r.owner = p
                      /\ CommitCalls(p)[k].ptr = a[k].ptr
                      /\ CommitCalls(p)[k].size = a[k].size
                      /\ CommitCalls(p)[k].result = a[k].ptr
                /\ ret[p] = a[1].ptr

C3_Witness ==
    \E p \in threads :
        /\ Returned(p) /\ ret[p] # NULL
        /\ count[p] >= 2
        /\ allocationSpecs[p][1].size > allocationUnitSize

\* C4: when the commit of piece k failed, the call returns NULL having released
\* each of the pieces 0..k-1, and holds no region, probe or piece.
C4_CommitFailureAtomic ==
    \A p \in threads :
        Returned(p) /\ CommitFailed(p) =>
            /\ ret[p] = NULL
            /\ Held(p) = {}
            /\ \A k \in 1..Len(CommitCalls(p)) :
                  CommitCalls(p)[k].result # NULL =>
                      \E n \in DOMAIN backendCalls[p] :
                          /\ backendCalls[p][n].op = "release"
                          /\ backendCalls[p][n].ptr = CommitCalls(p)[k].ptr
                          /\ \E m \in 1..(n - 1) :
                                backendCalls[p][m] = CommitCalls(p)[k]

C4_Witness ==
    \E p \in threads :
        /\ Returned(p) /\ CommitFailed(p)
        /\ Len(CommitCalls(p)) >= 2

\* C5: a call submits to the pointer map once if it succeeds, handing over all
\* count pieces in order, the first one's address being the value returned, and
\* never if it fails.
C5_SubmitOnce ==
    \A p \in threads :
        /\ ~Returned(p) => submitted[p] = <<>>
        /\ Returned(p) /\ ret[p] = NULL => submitted[p] = <<>>
        /\ Returned(p) /\ ret[p] # NULL =>
              /\ Len(submitted[p]) = 1
              /\ Len(submitted[p][1]) = count[p]
              /\ \A k \in 1..count[p] :
                    /\ submitted[p][1][k].ptr = CommitCalls(p)[k].result
                    /\ submitted[p][1][k].size = spec[p][k].size
              /\ submitted[p][1][1].ptr = ret[p]

C5_Witness ==
    \E p \in threads :
        Returned(p) /\ ret[p] # NULL /\ count[p] >= 2 /\ Len(submitted[p]) = 1

\* A call whose validation fails: a node does not resolve, or the rounded sizes
\* add up to zero.
ValidationFails(p) == SomeNodeInvalid(p) \/ SumRoundedTo(p, count[p]) = 0

\* C6: a call whose validation fails issues no reserve, commit or release and no
\* submit, and returns NULL.
C6_ValidationTouchesNothing ==
    \A p \in threads :
        ValidationFails(p) =>
            /\ backendCalls[p] = <<>>
            /\ submitted[p] = <<>>
            /\ Held(p) = {}
            /\ pc[p] \in {"validate", "check", "done"}
            /\ Returned(p) => ret[p] = NULL

C6_Witness ==
    \E p \in threads :
        /\ Returned(p) /\ count[p] >= 2
        /\ topoGetNUMANodeOSIndex(requested[p][1].numaNode) >= 0
        /\ topoGetNUMANodeOSIndex(requested[p][2].numaNode) < 0
        /\ Rounded(p, 1) # 0

\* C7: a call that fails on an invalid node returns with every size of the
\* caller's array as it was passed.
C7_InvalidNodeLeavesInput ==
    \A p \in threads :
        Returned(p) /\ SomeNodeInvalid(p) => spec[p] = requested[p]

\* C8: when the nodes resolve and a piece rounds to size zero while another does
\* not, the call issues neither the probe reservation nor a commit.
C8_ZeroPieceRejected ==
    \A p \in threads :
        /\ ~SomeNodeInvalid(p)
        /\ \E k \in 1..count[p] : Rounded(p, k) = 0
        /\ \E k \in 1..count[p] : Rounded(p, k) # 0
        => backendCalls[p] = <<>>

\* The result is the multiple of the unit nearest to the size, a tie going up.
NearestMultiple(size, unit, result) ==
    /\ result % unit = 0
    /\ 2 * result - unit <= 2 * size
    /\ 2 * size < 2 * result + unit

ProbedBase(p) == backendCalls[p][1].result

\* C10: two concurrent calls are never both in the piece loop with the same probed
\* base address.
C10_DistinctProbeBases ==
    \A p, q \in threads :
        p # q /\ pc[p] = "commit" /\ pc[q] = "commit" => ProbedBase(p) # ProbedBase(q)

\* The addresses of the pieces call p committed, by its own calls.
OwnCommitted(p) == {CommitCalls(p)[k].result : k \in 1..Len(CommitCalls(p))} \ {NULL}

\* C11, in every state: a call that returned success holds each recorded piece as
\* its own region, overlapping no other region; a call that returned failure holds
\* no region.
C11_Returned ==
    \A p \in threads :
        /\ Returned(p) /\ ret[p] # NULL =>
              \A k \in 1..Len(allocationSpecs[p]) :
                  \E r \in regions :
                      /\ r.base = allocationSpecs[p][k].ptr
                      /\ r.size = allocationSpecs[p][k].size
                      /\ r.owner = p
                      /\ \A o \in regions \ {r} : ~Overlaps(r.base, r.size, o)
        /\ Returned(p) /\ ret[p] = NULL => Held(p) = {}

\* C11, in every step: a region that goes away was reserved by the thread that
\* releases it, and a piece a call releases is one it committed itself.
C11_ReleasesOwn ==
    \A r \in regions \ regions' :
        IF r.owner \in threads
        THEN /\ backendCalls'[r.owner] # backendCalls[r.owner]
             /\ r.committed => r.base \in OwnCommitted(r.owner)
        ELSE backendCalls' = backendCalls

\* C11: under the race between the release of the probe and the commits, a call
\* that returns success owns a range that overlaps no other live region, and a call
\* that returns failure has released only pieces it committed itself and holds none.
C11_RaceSafe == [](C11_Returned) /\ [][C11_ReleasesOwn]_vars

\* A call committed a piece, lost the next address to the other call, which
\* succeeded there, and returned failure.
C11_Witness ==
    \E p, q \in threads :
        /\ p # q
        /\ Returned(p) /\ ret[p] # NULL
        /\ Returned(q) /\ ret[q] = NULL
        /\ Len(CommitCalls(q)) >= 2
        /\ CommitCalls(q)[1].result # NULL
        /\ CommitCalls(q)[Len(CommitCalls(q))].result = NULL
        /\ CommitCalls(q)[Len(CommitCalls(q))].ptr = ret[p]

\* C12: the commits are issued for pieces 0, 1, 2, ... in that order, each at the
\* probed base plus the sizes before it; nothing is committed after a commit that
\* failed, and the calls that follow the failure are the releases of the pieces
\* committed before it, in order.
C12_SequentialNoRetry ==
    \A p \in threads :
        LET c == CommitCalls(p)
            log == backendCalls[p]
        IN  /\ Len(c) <= count[p]
            /\ \A k \in 1..Len(c) :
                  /\ c[k].size = spec[p][k].size
                  /\ c[k].node = topoGetNUMANodeOSIndex(spec[p][k].numaNode)
                  /\ c[k].ptr = ProbedBase(p) + SumSizes(SubSeq(spec[p], 1, k - 1))
                  /\ k < Len(c) => c[k].result # NULL
            /\ \A n \in DOMAIN log :
                  log[n].op = "commit" /\ log[n].result = NULL =>
                      /\ Len(log) - n <= Len(c) - 1
                      /\ \A m \in (n + 1)..Len(log) :
                            /\ log[m].op = "release"
                            /\ log[m].ptr = c[m - n].ptr
                            /\ log[m].size = c[m - n].size

C12_Witness ==
    \E p \in threads :
        /\ Returned(p)
        /\ Len(CommitCalls(p)) = 2
        /\ CommitCalls(p)[2].result = NULL
        /\ CommitCalls(p)[1].size # CommitCalls(p)[2].size
        /\ Len(backendCalls[p]) = 5

\* The probe reservation of call p, while it is live.
ProbeHeld(p) == {r \in Held(p) : ~r.committed}

\* C13: the first virtual memory call is a reserve-only request of totalActualBytes
\* at an address the system chooses, and the only such request; if it fails the
\* call returns NULL with no other call issued; if it succeeds the next call is its
\* release, so the probe is never live together with a piece, nor on return.
C13_ProbeOrdering ==
    \A p \in threads :
        LET log == backendCalls[p]
        IN  /\ log # <<>> =>
                  /\ log[1].op = "reserve"
                  /\ log[1].ptr = NULL
                  /\ log[1].size = totalActualBytes[p]
                  /\ log[1].result = NULL =>
                        Len(log) = 1 /\ Returned(p) /\ ret[p] = NULL
            /\ \A n \in 2..Len(log) : log[n].op # "reserve"
            /\ Len(log) >= 2 =>
                  /\ log[2].op = "release"
                  /\ log[2].ptr = log[1].result
            /\ ProbeHeld(p) # {} =>
                  /\ pc[p] = "freeprobe"
                  /\ Len(log) = 1
                  /\ ProbeHeld(p) = Held(p)
                  /\ \A r \in ProbeHeld(p) :
                        r.base = log[1].result /\ r.size = totalActualBytes[p]
            /\ Returned(p) => ProbeHeld(p) = {}

C13_Witness ==
    \E p \in threads :
        /\ Returned(p) /\ ret[p] # NULL
        /\ totalActualBytes[p] # totalRequestedBytes[p]
        /\ backendCalls[p][2].op = "release"
        /\ backendCalls[p][3].op = "commit"

\* C14: a call reads and writes only the elements 0..count-1 of the caller's array.
C14_InBounds ==
    \A p \in threads : touched[p] \subseteq 0..(count[p] - 1)

\* C15: the padding loop is left after finitely many iterations, whatever the
\* sizes requested.
C15_PaddingTerminates == (pc[1] = "pad") ~> (pc[1] # "pad")

====
